---- MODULE Spec2Model ----
(***************************************************************************)
(* Model of the lenme-api lending backend: the stored tables (UserProfile, *)
(* Loan, LoanOffer, Payment), the request handlers of lending/views.py and *)
(* payment/views.py, and the periodic sweep of lending/tasks.py.           *)
(*                                                                         *)
(* Money is counted in cents (DecimalField with decimal_places=2); an      *)
(* annual rate is counted in hundredths of a percent.  A value that the    *)
(* code holds with more than two decimals is a fraction num/den of a cent. *)
(* A date is a pair <<month, day>>, month counted from a January.          *)
(* Every save() is committed as it is made (no view opens a transaction).  *)
(* Spec runs the handlers one request at a time, SpecInterleaved runs them *)
(* statement by statement in several workers, and SpecAmounts runs them on *)
(* a range of loan amounts, rates and terms.  SpecRetry runs the sweep     *)
(* again and again, and SpecFaults lets one statement of a settlement of   *)
(* the sweep raise.                                                        *)
(***************************************************************************)
EXTENDS Integers, Sequences, FiniteSets, TLC

\* ------------------------------------------------------------------ bounds
MaxLoans == 2
MaxOffers == 2
MaxPeriod == 2
MaxMonth == 1
MaxWorkers == 2
MaxCents == 200

\* ------------------------------------------------------- program constants
LENME_FEE == 375
NULL_RATE == -1

NoUser == "None"
NoDate == <<>>

\* The accounts, named as in conftest.py, and their opening balances:
\* a borrower who can afford some installments but not all, a lender who
\* can fund every loan and one who can fund a single loan.
Users == {"borrower", "lender", "poor_lender"}
InitialBalance ==
  [u \in Users |-> CASE u = "borrower" -> 4000
                     [] u = "lender" -> 1000000
                     [] u = "poor_lender" -> 10000]

\* Values a request may carry: the amount and the term of a loan
\* application, and the annual rate each lender offers.
LoanAmounts == {5000}
Periods == 0..MaxPeriod
OfferedRate == [u \in {"lender", "poor_lender"} |-> IF u = "lender" THEN 1550 ELSE 0]

\* ----------------------------------------------------------------- decimal
Abs(x) == IF x < 0 THEN -x ELSE x

\* Decimal.quantize(Decimal("0.01")) under the default context
\* (ROUND_HALF_EVEN) of num/den cents, den > 0.
QuantizeHalfEven(num, den) ==
  LET q == num \div den
      r == num % den
  IN  IF 2 * r < den THEN q
      ELSE IF 2 * r > den THEN q + 1
      ELSE IF q % 2 = 0 THEN q ELSE q + 1

\* Rounding of num/den cents half away from zero (a numeric(10,2) column).
QuantizeHalfUp(num, den) ==
  LET q == num \div den
      r == num % den
  IN  IF 2 * r < den THEN q
      ELSE IF 2 * r > den THEN q + 1
      ELSE IF num >= 0 THEN q + 1 ELSE q

RECURSIVE Log2Floor(_)
Log2Floor(x) == IF x < 2 THEN 0 ELSE 1 + Log2Floor(x \div 2)

RECURSIVE Log2Below(_, _)
\* the least t with m * 2^t >= 200
Log2Below(m, t) == IF m >= 200 THEN t ELSE Log2Below(2 * m, t + 1)

RECURSIVE Pow2Mod25(_)
Pow2Mod25(e) == IF e = 0 THEN 1 ELSE (2 * Pow2Mod25(e - 1)) % 25

\* round(float(x), 2) for x = q cents and a half: the double nearest to
\* (2q+1)/200 lies below it, above it, or is it exactly, and round() rounds
\* that double (an exact tie goes to the even cent).
RoundFloatTie(q) ==
  LET m == 2 * q + 1
      j == IF m >= 200 THEN Log2Floor(m \div 200) ELSE -Log2Below(m, 0)
      rem == ((m % 25) * Pow2Mod25((49 - j) % 20)) % 25
  IN  IF rem = 0 THEN (IF q % 2 = 0 THEN q ELSE q + 1)
      ELSE IF rem <= 12 THEN q ELSE q + 1

\* views.py:282-286 in cents: principal_portion = P / n and
\* interest_portion = B * (r / 100 / 12) for P, B >= 0, r >= 0 and n > 0,
\* and Decimal(str(round(float(principal_portion + interest_portion), 2))).
Installment(P, B, r, n) ==
  LET \* principal_portion = q1 + r1/n, interest_portion = q2 + r2/120000
      q1 == P \div n
      r1 == P % n
      q2 == (B * r) \div 120000
      r2 == (B * r) % 120000
      D == 120000 * n
      F == r1 * 120000 + r2 * n
      q == q1 + q2 + (F \div D)
      f == F % D
  IN  IF 2 * f < D THEN q
      ELSE IF 2 * f > D THEN q + 1
      ELSE RoundFloatTie(q)

MonthlyPayment_InterestOnPrincipal(T, r, n) ==
  IF T < 0 THEN -Installment(Abs(T), Abs(T), r, n) ELSE Installment(T, T - 375, r, n)

\* monthly_payment of _create_payment_schedule, in cents, for a loan of
\* total amount T cents at annual rate r >= 0 over n > 0 months: both
\* portions are taken of principal = loan.total_loan_amount (views.py:278).
MonthlyPayment(T, r, n) ==
  IF T < 0 THEN -Installment(Abs(T), Abs(T), r, n) ELSE Installment(T, T, r, n)

\* ------------------------------------------------------------------- dates
DaysIn(m) ==
  LET k == m % 12
  IN  IF k = 1 THEN 28 ELSE IF k \in {3, 5, 8, 10} THEN 30 ELSE 31

\* (d + relativedelta(months=i)).date(): the day is clamped to the month.
AddMonths(d, i) ==
  <<d[1] + i, IF d[2] > DaysIn(d[1] + i) THEN DaysIn(d[1] + i) ELSE d[2]>>

DateLE(a, b) == a[1] < b[1] \/ (a[1] = b[1] /\ a[2] <= b[2])


\* ------------------------------------------------------------------- state
VARIABLES
  balance,       \* UserProfile.balance of every user, in cents
  loans,         \* the Loan rows, by id
  offers,        \* the LoanOffer rows, by id
  payments,      \* the Payment rows, by id
  now,           \* timezone.now().date()
  db_rounding,   \* how the database rounds a decimal to the column's scale
  resp,          \* what the last request, or the last sweep, returned
  inflight       \* the local variables of every handler that is under way

vars == <<balance, loans, offers, payments, now, db_rounding, resp, inflight>>

db == <<balance, loans, offers, payments>>

NoSummary ==
  [processed_payments |-> 0, failed_payments |-> 0, completed_loans |-> <<>>,
   total_due_payments |-> 0]

\* The payment_breakdown of a response that carries none.
NoBreakdown == [total_payment |-> 0, platform_fee |-> 0, lender_amount |-> 0]

\* A view's Response: the request it answers (op, and arg: the id of the
\* row the request names or creates), the HTTP status and the error.
Response(op, arg, status, error) ==
  [op |-> op, arg |-> arg, status |-> status, error |-> error, summary |-> NoSummary,
   breakdown |-> NoBreakdown]

SweepResult_NoLoans(summary) ==
  [op |-> "process_loan_repayments", arg |-> 0, status |-> 0, error |-> "",
   summary |-> [summary EXCEPT !.completed_loans = <<>>],
   breakdown |-> [total_payment |-> 0, platform_fee |-> 0, lender_amount |-> 0]]

\* The dict process_loan_repayments returns.
SweepResult(summary) ==
  [op |-> "process_loan_repayments", arg |-> 0, status |-> 0, error |-> "",
   summary |-> summary, breakdown |-> NoBreakdown]

\* What a DecimalField(decimal_places=2) column keeps of num/den cents.
StoreDecimal(num, den) ==
  IF db_rounding = "half_even" THEN QuantizeHalfEven(num, den)
  ELSE QuantizeHalfUp(num, den)

LoanIds == 1..Len(loans)
OfferIds == 1..Len(offers)
PaymentIds == 1..Len(payments)

\* Payment.objects.filter(loan=loan)
PaymentsOf(pays, loan_id) == {p \in 1..Len(pays) : pays[p].loan = loan_id}

\* The server's workers (the threads that serve requests and run the task).
Workers == 1..MaxWorkers

\* A worker that serves nothing.  A worker under way keeps the objects its
\* handler has loaded: the offer's id, the payment's id and the Payment and
\* Loan objects as they were read, the balance of the profile it read, and
\* for the sweep the rows of its queryset and its counters.
IdleWorker ==
  [op |-> "idle", pc |-> "idle", offer_id |-> 0, payment_id |-> 0,
   loan |-> [borrower |-> NoUser, lender |-> NoUser, loan_amount |-> 0,
             loan_period_months |-> 0, annual_interest_rate |-> NULL_RATE,
             lenme_fee |-> 0, total_loan_amount |-> 0, status |-> "pending",
             funded_at |-> NoDate],
   payment |-> [loan |-> 0, payment_number |-> 0, amount |-> 0,
                due_date |-> NoDate, status |-> "pending", paid_at |-> NoDate,
                platform_fee |-> 0, lender_amount |-> 0],
   profile_balance |-> 0, rows |-> <<>>, processed_count |-> 0,
   failed_count |-> 0, completed_loans |-> <<>>]

Init ==
  /\ balance = InitialBalance
  /\ loans = <<>>
  /\ offers = <<>>
  /\ payments = <<>>
  /\ now = <<0, 31>>
  /\ db_rounding \in {"half_even", "half_up"}
  /\ resp = Response("none", 0, 0, "")
  /\ inflight = [w \in Workers |-> IdleWorker]

\* ---------------------------------------------------------------- CreateLoan
NewLoan(borrower, loan_amount, loan_period_months) ==
  [borrower |-> borrower, lender |-> NoUser, loan_amount |-> loan_amount,
   loan_period_months |-> loan_period_months,
   annual_interest_rate |-> NULL_RATE, lenme_fee |-> 0,
   total_loan_amount |-> 0, status |-> "pending", funded_at |-> NoDate]

\* CreateLoanView.post.  fields_present: all three form fields are given and
\* non-empty (a form value "0" or "-1" is a non-empty string).
CreateLoan(borrower_id, loan_amount, loan_period_months, fields_present) ==
  /\ Len(loans) < MaxLoans
  /\ IF ~fields_present
     THEN /\ resp' = Response("CreateLoan", 0, 400, "fields are required")
          /\ UNCHANGED loans
     ELSE IF borrower_id \notin Users
     THEN /\ resp' = Response("CreateLoan", 0, 404, "Borrower not found")
          /\ UNCHANGED loans
     ELSE /\ loans' = Append(loans, NewLoan(borrower_id, loan_amount, loan_period_months))
          /\ resp' = Response("CreateLoan", Len(loans) + 1, 201, "")
  /\ UNCHANGED <<balance, offers, payments, now, db_rounding, inflight>>

\* --------------------------------------------------------------- SubmitOffer
SubmitRequiredAmount_Zero(loan) == 0

\* views.py:182-185
SubmitRequiredAmount(loan) == loan.loan_amount + LENME_FEE

LoanHasLender_Unchecked(loan) == FALSE

\* views.py:175, the only guard on the loan: its status is not read
LoanHasLender(loan) == loan.lender # NoUser

NewOffer(loan_id, lender, rate) ==
  [loan |-> loan_id, lender |-> lender, annual_interest_rate |-> rate,
   is_accepted |-> FALSE]

\* SubmitOfferView.post
SubmitOffer(loan_id, lender_id, annual_interest_rate, fields_present) ==
  /\ Len(offers) < MaxOffers
  /\ IF ~fields_present
     THEN /\ resp' = Response("SubmitOffer", 0, 400, "fields are required")
          /\ UNCHANGED offers
     ELSE IF loan_id \notin LoanIds \/ lender_id \notin Users
     THEN /\ resp' = Response("SubmitOffer", 0, 404, "Loan or Lender not found")
          /\ UNCHANGED offers
     ELSE IF LoanHasLender(loans[loan_id])
     THEN /\ resp' = Response("SubmitOffer", 0, 400, "Loan already has a lender")
          /\ UNCHANGED offers
     ELSE IF balance[lender_id] < SubmitRequiredAmount(loans[loan_id])
     THEN /\ resp' = Response("SubmitOffer", 0, 400, "Insufficient balance")
          /\ UNCHANGED offers
     ELSE /\ offers' = Append(offers, NewOffer(loan_id, lender_id, annual_interest_rate))
          /\ resp' = Response("SubmitOffer", Len(offers) + 1, 201, "")
  /\ UNCHANGED <<balance, loans, payments, now, db_rounding, inflight>>

\* --------------------------------------------------------------- AcceptOffer
TotalLoanAmount_NoFee(loan) == loan.loan_amount

\* views.py:241-242
TotalLoanAmount(loan) == loan.loan_amount + LENME_FEE

OfferAlreadyAccepted_Unchecked(offer) == FALSE

\* views.py:228, the guard on the offer
OfferAlreadyAccepted(offer) == offer.is_accepted

LenderCannotFund_Unchecked(lender_balance, total_loan_amount) == FALSE

\* views.py:245, the re-check of the lender's balance
LenderCannotFund(lender_balance, total_loan_amount) ==
  lender_balance < total_loan_amount

FundedLoan_NoFee(loan, offer, today) ==
  [loan EXCEPT !.lender = offer.lender,
               !.annual_interest_rate = offer.annual_interest_rate,
               !.total_loan_amount = loan.loan_amount + LENME_FEE,
               !.status = "funded",
               !.funded_at = today]

\* views.py:257-264
FundedLoan(loan, offer, today) ==
  [loan EXCEPT !.lender = offer.lender,
               !.annual_interest_rate = offer.annual_interest_rate,
               !.lenme_fee = LENME_FEE,
               !.total_loan_amount = TotalLoanAmount(loan),
               !.status = "funded",
               !.funded_at = today]

\* views.py:290, the due date of payment i
DueDate(funded_at, i) == AddMonths(funded_at, i)

\* views.py:289, range(1, num_payments + 1), empty when num_payments < 1
PaymentNumbers(num_payments) == [k \in 1..num_payments |-> k]

NewPayment(loan_id, i, amount, due_date) ==
  [loan |-> loan_id, payment_number |-> i, amount |-> amount,
   due_date |-> due_date, status |-> "pending", paid_at |-> NoDate,
   platform_fee |-> 0, lender_amount |-> 0]

\* The rows _create_payment_schedule adds for a loan with
\* loan_period_months # 0, in the order it creates them.
PaymentSchedule(loan_id, loan) ==
  LET n == loan.loan_period_months
      amount == IF n > 0
                THEN MonthlyPayment(loan.total_loan_amount, loan.annual_interest_rate, n)
                ELSE 0
      nums == PaymentNumbers(n)
  IN  [k \in 1..Len(nums) |->
         NewPayment(loan_id, nums[k], amount, DueDate(loan.funded_at, nums[k]))]

\* principal / num_payments raises decimal.DivisionByZero (views.py:282)
ScheduleRaises(loan) == loan.loan_period_months = 0

\* AcceptOfferView.post
AcceptOffer(offer_id) ==
  /\ IF offer_id = 0
     THEN /\ resp' = Response("AcceptOffer", offer_id, 400, "offer_id is required")
          /\ UNCHANGED db
     ELSE IF offer_id \notin OfferIds
     THEN /\ resp' = Response("AcceptOffer", offer_id, 404, "Offer not found")
          /\ UNCHANGED db
     ELSE
       LET offer == offers[offer_id]
           loan == loans[offer.loan]
           total_loan_amount == TotalLoanAmount(loan)
           funded == FundedLoan(loan, offer, now)
       IN  IF OfferAlreadyAccepted(offer)
           THEN /\ resp' = Response("AcceptOffer", offer_id, 400, "Offer already accepted")
                /\ UNCHANGED db
           ELSE IF LenderCannotFund(balance[offer.lender], total_loan_amount)
           THEN /\ resp' = Response("AcceptOffer", offer_id, 400,
                                    "Lender no longer has sufficient balance")
                /\ UNCHANGED db
           ELSE /\ balance' = [balance EXCEPT
                                 ![offer.lender] = balance[offer.lender] - total_loan_amount]
                /\ loans' = [loans EXCEPT ![offer.loan] = funded]
                /\ offers' = [offers EXCEPT ![offer_id].is_accepted = TRUE]
                /\ IF ScheduleRaises(funded)
                   THEN /\ UNCHANGED payments
                        /\ resp' = Response("AcceptOffer", offer_id, 500, "DivisionByZero")
                   ELSE /\ payments' = payments \o PaymentSchedule(offer.loan, funded)
                        /\ resp' = Response("AcceptOffer", offer_id, 200, "")
  /\ UNCHANGED <<now, db_rounding, inflight>>

\* --------------------------------------------------------------- settlement
\* views.py:66-69 and tasks.py:81-84: platform_fee_per_payment as the
\* fraction <<numerator, denominator>> of a cent
PlatformFeePerPayment(loan) ==
  IF loan.loan_period_months > 0
  THEN <<loan.lenme_fee, loan.loan_period_months>>
  ELSE <<0, 1>>

LenderAmount_Gross(payment, loan) == <<payment.amount, 1>>

\* views.py:71 and tasks.py:86: payment.amount - platform_fee_per_payment
LenderAmount(payment, loan) ==
  LET fee == PlatformFeePerPayment(loan)
  IN  <<payment.amount * fee[2] - fee[1], fee[2]>>

PaidPayment_NoShares(payment, loan, today) ==
  [payment EXCEPT !.status = "paid", !.paid_at = today]

\* views.py:74-77 and tasks.py:93-96
PaidPayment(payment, loan, today) ==
  LET fee == PlatformFeePerPayment(loan)
      net == LenderAmount(payment, loan)
  IN  [payment EXCEPT !.status = "paid",
                      !.paid_at = today,
                      !.platform_fee = QuantizeHalfEven(fee[1], fee[2]),
                      !.lender_amount = QuantizeHalfEven(net[1], net[2])]

\* views.py:101-107: the payment_breakdown of MakePayment's response
PaymentBreakdown(payment, loan) ==
  LET fee == PlatformFeePerPayment(loan)
      net == LenderAmount(payment, loan)
  IN  [total_payment |-> payment.amount,
       platform_fee |-> QuantizeHalfEven(fee[1], fee[2]),
       lender_amount |-> QuantizeHalfEven(net[1], net[2])]

\* views.py:97-110: the response of a payment that went through
PaymentResponse(payment_id, payment, loan) ==
  [Response("MakePayment", payment_id, 200, "") EXCEPT
     !.breakdown = PaymentBreakdown(payment, loan)]

\* views.py:87-88 and tasks.py:104-105: balance += lender_amount; save()
CreditLender(lender_balance, payment, loan) ==
  LET net == LenderAmount(payment, loan)
  IN  StoreDecimal(lender_balance * net[2] + net[1], net[2])

AllPaid_Never(pays, loan_id) == FALSE

AllPaid_AnyPaid(pays, loan_id) ==
  \E p \in PaymentsOf(pays, loan_id) : pays[p].status = "paid"

\* views.py:91-92 and tasks.py:120-121
AllPaid(pays, loan_id) == \A p \in PaymentsOf(pays, loan_id) : pays[p].status = "paid"

AlreadyPaid_Unchecked(payment) == FALSE

\* views.py:49
AlreadyPaid(payment) == payment.status = "paid"

\* views.py:25-47: the payment a request names; 0 when none, -1 when
\* get() finds several rows (MultipleObjectsReturned)
FindPayment(payment_id, loan_id, payment_number) ==
  IF payment_id # 0
  THEN (IF payment_id \in PaymentIds THEN payment_id ELSE 0)
  ELSE LET found == {p \in PaymentIds : /\ payments[p].loan = loan_id
                                        /\ payments[p].payment_number = payment_number}
       IN  IF found = {} THEN 0
           ELSE IF Cardinality(found) > 1 THEN -1
           ELSE CHOOSE p \in found : TRUE

\* views.py:54-94: what a request that goes through writes for payment pid:
\* the payment, the lender's balance and, when it was the last one, the
\* loan.  No other balance is read or written.
MakePaymentWrites(pid) ==
  LET payment == payments[pid]
      loan == loans[payment.loan]
      paid == [payments EXCEPT ![pid] = PaidPayment(payment, loan, now)]
  IN  [payments |-> paid,
       balance |-> [balance EXCEPT ![loan.lender] =
                      CreditLender(balance[loan.lender], payment, loan)],
       loans |-> IF AllPaid(paid, payment.loan)
                 THEN [loans EXCEPT ![payment.loan].status = "completed"]
                 ELSE loans]

MakePayment_OwnerOnly(payment_id, loan_id, payment_number, borrower_id) ==
  /\ resp' = Response("MakePayment", payment_id,
                      IF borrower_id = "borrower" THEN 404 ELSE 403, "Payment not found")
  /\ UNCHANGED <<balance, loans, offers, payments, now, db_rounding, inflight>>

\* MakePaymentView.post
MakePayment(payment_id, loan_id, payment_number, borrower_id) ==
  /\ IF payment_id = 0 /\ (loan_id = 0 \/ payment_number = 0)
     THEN /\ resp' = Response("MakePayment", 0, 400, "payment_id is required")
          /\ UNCHANGED db
     ELSE
       LET pid == FindPayment(payment_id, loan_id, payment_number)
       IN  IF pid = 0
           THEN /\ resp' = Response("MakePayment", 0, 404, "Payment not found")
                /\ UNCHANGED db
           ELSE IF pid = -1
           THEN /\ resp' = Response("MakePayment", 0, 500, "MultipleObjectsReturned")
                /\ UNCHANGED db
           ELSE
             LET payment == payments[pid]
                 loan == loans[payment.loan]
                 written == MakePaymentWrites(pid)
             IN  IF AlreadyPaid(payment)
                 THEN /\ resp' = Response("MakePayment", pid, 400, "Payment already made")
                      /\ UNCHANGED db
                 ELSE /\ payments' = written.payments
                      /\ balance' = written.balance
                      /\ loans' = written.loans
                      /\ UNCHANGED offers
                      /\ resp' = PaymentResponse(pid, payment, loan)
  /\ UNCHANGED <<now, db_rounding, inflight>>

\* -------------------------------------------------- process_loan_repayments
DuePayments_AllPending(today) ==
  {p \in PaymentIds : /\ payments[p].status = "pending"
                      /\ loans[payments[p].loan].status = "funded"}

\* tasks.py:27-29: the payments the sweep selects
DuePayments(today) ==
  {p \in PaymentIds : /\ DateLE(payments[p].due_date, today)
                      /\ payments[p].status = "pending"
                      /\ loans[payments[p].loan].status = "funded"}

\* The orders in which the queryset may yield the selected rows: Payment's
\* Meta.ordering is payment_number, rows of equal number come in any order.
RECURSIVE SweepOrders(_)
SweepOrders(S) ==
  IF S = {} THEN {<<>>}
  ELSE LET first == {p \in S : \A q \in S :
                       payments[p].payment_number <= payments[q].payment_number}
       IN  UNION {{<<p>> \o o : o \in SweepOrders(S \ {p})} : p \in first}

BorrowerCanPay_Never(borrower_balance, payment) == FALSE

BorrowerCanPay_Unchecked(borrower_balance, payment) == TRUE

\* tasks.py:48
BorrowerCanPay(borrower_balance, payment) == borrower_balance >= payment.amount

\* tasks.py:36-61: one turn of the loop, for the selected payment p.  The
\* payment and its loan are the objects the queryset loaded (the rows as
\* they were when the sweep selected them); the profiles are read afresh
\* from st, the database as it is when the turn starts.
SweepSettle(st, p, payment, loan) ==
  LET debited == [st.balance EXCEPT
                    ![loan.borrower] = st.balance[loan.borrower] - payment.amount]
      credited == [debited EXCEPT
                     ![loan.lender] = CreditLender(debited[loan.lender], payment, loan)]
      paid == [st.payments EXCEPT ![p] = PaidPayment(payment, loan, now)]
      done == AllPaid(paid, payment.loan)
  IN  IF BorrowerCanPay(st.balance[loan.borrower], payment)
      THEN [balance |-> credited,
            payments |-> paid,
            loans |-> IF done
                      THEN [st.loans EXCEPT ![payment.loan] =
                              [loan EXCEPT !.status = "completed"]]
                      ELSE st.loans,
            processed_count |-> st.processed_count + 1,
            failed_count |-> st.failed_count,
            completed_loans |-> IF done
                                THEN Append(st.completed_loans, payment.loan)
                                ELSE st.completed_loans]
      ELSE st

\* One turn of the loop in a sweep that runs alone: the rows of the
\* queryset are the rows of the database when the sweep starts.
SweepItem(st, p) == SweepSettle(st, p, payments[p], loans[payments[p].loan])

SweepLoop_FirstOnly(st, order) ==
  IF order = <<>> THEN st ELSE SweepItem(st, Head(order))

\* tasks.py:35-61: the loop over the selected rows
RECURSIVE SweepLoop(_, _)
SweepLoop(st, order) ==
  IF order = <<>> THEN st
  ELSE SweepLoop(SweepItem(st, Head(order)), Tail(order))

\* process_loan_repayments
Sweep ==
  \E order \in SweepOrders(DuePayments(now)) :
    LET st == SweepLoop([balance |-> balance, payments |-> payments, loans |-> loans,
                         processed_count |-> 0, failed_count |-> 0,
                         completed_loans |-> <<>>], order)
    IN  /\ balance' = st.balance
        /\ payments' = st.payments
        /\ loans' = st.loans
        /\ resp' = SweepResult([processed_payments |-> st.processed_count,
                                failed_payments |-> st.failed_count,
                                completed_loans |-> st.completed_loans,
                                total_due_payments |-> Len(order)])
        /\ UNCHANGED <<offers, now, db_rounding, inflight>>

\* --------------------------------------------------------------------- time
\* A month passes: the clock moves to the last day of the next month.
Tick ==
  /\ now[1] < MaxMonth
  /\ now' = <<now[1] + 1, DaysIn(now[1] + 1)>>
  /\ UNCHANGED <<balance, loans, offers, payments, db_rounding, resp, inflight>>

\* --------------------------------------------------------------------- spec
\* The users that ask for loans in the runs explored.
Applicants == {"borrower"}

\* The users that offer to fund them.
Lenders == {"lender", "poor_lender"}

\* The borrower_id values that MakePayment requests carry.
Payers == {"borrower", "lender"}

Next ==
  \/ \E b \in Applicants, a \in LoanAmounts, n \in Periods : CreateLoan(b, a, n, TRUE)
  \/ \E l \in LoanIds, u \in Lenders : SubmitOffer(l, u, OfferedRate[u], TRUE)
  \/ \E o \in OfferIds : AcceptOffer(o)
  \/ \E p \in PaymentIds, b \in Payers : MakePayment(p, 0, 0, b)
  \/ \E l \in LoanIds, k \in 1..MaxPeriod : MakePayment(0, l, k, NoUser)
  \/ Sweep
  \/ Tick

Spec == Init /\ [][Next]_vars

\* ------------------------------------------------- handlers run concurrently
\* The same handlers served by several workers at once.  A handler is cut
\* where it reads and where it writes the database: every query and every
\* save() is a statement of its own (autocommit), so the statements of two
\* handlers interleave.  Reads that follow one another are taken as one
\* step, and so is one turn of the sweep's loop (its transaction).
\* In the runs explored every worker serves one request or one run of the
\* task, and a request goes to the first worker that has served none.
Idle(w) == inflight[w].op = "idle" /\ \A v \in 1..(w - 1) : inflight[v].op # "idle"

\* A worker whose handler has returned: what it served, its locals gone.
Returned(op, offer_id, payment_id) ==
  [IdleWorker EXCEPT !.op = op, !.pc = "done", !.offer_id = offer_id,
                     !.payment_id = payment_id]

Answered(w) ==
  [inflight EXCEPT ![w] =
     Returned(inflight[w].op, inflight[w].offer_id, inflight[w].payment_id)]

Refused(w, op, offer_id, payment_id) ==
  [inflight EXCEPT ![w] = Returned(op, offer_id, payment_id)]

At(w, op, pc) == inflight[w].op = op /\ inflight[w].pc = pc

\* views.py:214-251: load the offer, its loan and the lender's profile and
\* check them
AcceptOfferBegin(w, offer_id) ==
  /\ Idle(w)
  /\ offer_id \in OfferIds
  /\ LET offer == offers[offer_id]
         loan == loans[offer.loan]
     IN  IF OfferAlreadyAccepted(offer)
         THEN /\ resp' = Response("AcceptOffer", offer_id, 400, "Offer already accepted")
              /\ inflight' = Refused(w, "AcceptOffer", offer_id, 0)
         ELSE IF LenderCannotFund(balance[offer.lender], TotalLoanAmount(loan))
         THEN /\ resp' = Response("AcceptOffer", offer_id, 400,
                                  "Lender no longer has sufficient balance")
              /\ inflight' = Refused(w, "AcceptOffer", offer_id, 0)
         ELSE /\ inflight' = [inflight EXCEPT ![w] =
                   [IdleWorker EXCEPT !.op = "AcceptOffer", !.pc = "debit",
                                      !.offer_id = offer_id, !.loan = loan,
                                      !.profile_balance = balance[offer.lender]]]
              /\ UNCHANGED resp
  /\ UNCHANGED <<balance, loans, offers, payments, now, db_rounding>>

\* views.py:254-255: lender_profile.balance -= total_loan_amount; save()
AcceptOfferDebit(w) ==
  /\ At(w, "AcceptOffer", "debit")
  /\ LET lender == offers[inflight[w].offer_id].lender
     IN  balance' = [balance EXCEPT ![lender] =
                       inflight[w].profile_balance - TotalLoanAmount(inflight[w].loan)]
  /\ inflight' = [inflight EXCEPT ![w].pc = "fund"]
  /\ UNCHANGED <<loans, offers, payments, now, db_rounding, resp>>

\* views.py:257-273: save the loan object and the offer, create the schedule
AcceptOfferFinish(w) ==
  /\ At(w, "AcceptOffer", "fund")
  /\ LET offer_id == inflight[w].offer_id
         offer == offers[offer_id]
         funded == FundedLoan(inflight[w].loan, offer, now)
     IN  /\ loans' = [loans EXCEPT ![offer.loan] = funded]
         /\ offers' = [offers EXCEPT ![offer_id].is_accepted = TRUE]
         /\ IF ScheduleRaises(funded)
            THEN /\ UNCHANGED payments
                 /\ resp' = Response("AcceptOffer", offer_id, 500, "DivisionByZero")
            ELSE /\ payments' = payments \o PaymentSchedule(offer.loan, funded)
                 /\ resp' = Response("AcceptOffer", offer_id, 200, "")
  /\ inflight' = Answered(w)
  /\ UNCHANGED <<balance, now, db_rounding>>

\* payment/views.py:19-54: load the payment, check it, load its loan
MakePaymentBegin(w, payment_id) ==
  /\ Idle(w)
  /\ payment_id \in PaymentIds
  /\ LET payment == payments[payment_id]
     IN  IF AlreadyPaid(payment)
         THEN /\ resp' = Response("MakePayment", payment_id, 400, "Payment already made")
              /\ inflight' = Refused(w, "MakePayment", 0, payment_id)
         ELSE /\ inflight' = [inflight EXCEPT ![w] =
                   [IdleWorker EXCEPT !.op = "MakePayment", !.pc = "save",
                                      !.payment_id = payment_id,
                                      !.payment = payment,
                                      !.loan = loans[payment.loan]]]
              /\ UNCHANGED resp
  /\ UNCHANGED <<balance, loans, offers, payments, now, db_rounding>>

\* payment/views.py:74-86: save the payment as paid, load the lender's profile
MakePaymentSave(w) ==
  /\ At(w, "MakePayment", "save")
  /\ payments' = [payments EXCEPT ![inflight[w].payment_id] =
                    PaidPayment(inflight[w].payment, inflight[w].loan, now)]
  /\ inflight' = [inflight EXCEPT ![w].pc = "credit",
                                  ![w].profile_balance = balance[inflight[w].loan.lender]]
  /\ UNCHANGED <<balance, loans, offers, now, db_rounding, resp>>

\* payment/views.py:87-111: lender_profile.balance += lender_amount; save();
\* then the completion check, which saves the loan object
MakePaymentCredit(w) ==
  /\ At(w, "MakePayment", "credit")
  /\ LET loan == inflight[w].loan
         loan_id == inflight[w].payment.loan
     IN  /\ balance' = [balance EXCEPT ![loan.lender] =
                CreditLender(inflight[w].profile_balance, inflight[w].payment, loan)]
         /\ loans' = IF AllPaid(payments, loan_id)
                     THEN [loans EXCEPT ![loan_id] = [loan EXCEPT !.status = "completed"]]
                     ELSE loans
  /\ resp' = PaymentResponse(inflight[w].payment_id, inflight[w].payment, inflight[w].loan)
  /\ inflight' = Answered(w)
  /\ UNCHANGED <<offers, payments, now, db_rounding>>

\* tasks.py:63-70
SweepSummary(worker) ==
  [processed_payments |-> worker.processed_count,
   failed_payments |-> worker.failed_count,
   completed_loans |-> worker.completed_loans,
   total_due_payments |-> worker.processed_count + Len(worker.rows)]

\* tasks.py:24-35: the queryset is evaluated when the loop starts; its rows
\* are the Payment objects with their Loan objects (select_related)
SweepSelect(w) ==
  /\ Idle(w)
  /\ \E order \in SweepOrders(DuePayments(now)) :
       IF order = <<>>
       THEN /\ resp' = SweepResult(NoSummary)
            /\ inflight' = Refused(w, "process_loan_repayments", 0, 0)
       ELSE /\ inflight' = [inflight EXCEPT ![w] =
                 [IdleWorker EXCEPT
                    !.op = "process_loan_repayments", !.pc = "loop",
                    !.rows = [k \in 1..Len(order) |->
                                [id |-> order[k], payment |-> payments[order[k]],
                                 loan |-> loans[payments[order[k]].loan]]]]]
            /\ UNCHANGED resp
  /\ UNCHANGED <<balance, loans, offers, payments, now, db_rounding>>

\* tasks.py:35-72: one turn of the loop, and the return after the last one
SweepStep(w) ==
  /\ At(w, "process_loan_repayments", "loop")
  /\ LET row == Head(inflight[w].rows)
         st == SweepSettle([balance |-> balance, payments |-> payments, loans |-> loans,
                            processed_count |-> inflight[w].processed_count,
                            failed_count |-> inflight[w].failed_count,
                            completed_loans |-> inflight[w].completed_loans],
                           row.id, row.payment, row.loan)
         worker == [inflight[w] EXCEPT !.rows = Tail(inflight[w].rows),
                                       !.processed_count = st.processed_count,
                                       !.failed_count = st.failed_count,
                                       !.completed_loans = st.completed_loans]
     IN  /\ balance' = st.balance
         /\ payments' = st.payments
         /\ loans' = st.loans
         /\ IF worker.rows = <<>>
            THEN /\ resp' = SweepResult(SweepSummary(worker))
                 /\ inflight' = Answered(w)
            ELSE /\ inflight' = [inflight EXCEPT ![w] = worker]
                 /\ UNCHANGED resp
  /\ UNCHANGED <<offers, now, db_rounding>>

\* The database after AcceptOffer has funded the loans of `accepted`, each
\* through its offer, one after the other at the date `today`.
RECURSIVE SchedulesOf(_, _, _)
SchedulesOf(loan_rows, accepted, l) ==
  IF l > Len(loan_rows) THEN <<>>
  ELSE (IF l \in accepted THEN PaymentSchedule(l, loan_rows[l]) ELSE <<>>)
       \o SchedulesOf(loan_rows, accepted, l + 1)

\* The concurrent runs explored start a month after the borrower applied
\* for every loan over the longest term and one lender offered to fund
\* each of them, when AcceptOffer has funded some of the loans.
InitInterleaved ==
  \E lender \in Lenders, accepted \in SUBSET (1..MaxLoans) :
    LET applied == [l \in 1..MaxLoans |-> NewLoan("borrower", 5000, MaxPeriod)]
        offered == [o \in 1..MaxLoans |-> NewOffer(o, lender, OfferedRate[lender])]
        funded == [l \in 1..MaxLoans |->
                     IF l \in accepted
                     THEN FundedLoan(applied[l], offered[l], <<0, 31>>)
                     ELSE applied[l]]
        spent == Cardinality(accepted) * TotalLoanAmount(applied[1])
    IN  /\ spent <= InitialBalance[lender]
        /\ balance = [InitialBalance EXCEPT ![lender] = InitialBalance[lender] - spent]
        /\ loans = funded
        /\ offers = [o \in 1..MaxLoans |->
                       [offered[o] EXCEPT !.is_accepted = (o \in accepted)]]
        /\ payments = SchedulesOf(funded, accepted, 1)
        /\ now = <<1, 31>>
        /\ db_rounding \in {"half_even", "half_up"}
        /\ resp = Response("none", 0, 0, "")
        /\ inflight = [w \in Workers |-> IdleWorker]

NextInterleaved ==
  \/ \E w \in Workers, o \in OfferIds : AcceptOfferBegin(w, o)
  \/ \E w \in Workers : AcceptOfferDebit(w)
  \/ \E w \in Workers : AcceptOfferFinish(w)
  \/ \E w \in Workers, p \in PaymentIds : MakePaymentBegin(w, p)
  \/ \E w \in Workers : MakePaymentSave(w)
  \/ \E w \in Workers : MakePaymentCredit(w)
  \/ \E w \in Workers : SweepSelect(w)
  \/ \E w \in Workers : SweepStep(w)

SpecInterleaved == InitInterleaved /\ [][NextInterleaved]_vars

\* ------------------------------------------------- amounts, rates and terms
\* The applications and offers tried for the arithmetic of the schedule
\* and of the fee split: every small loan amount over every term with
\* every offered rate, and the loan and the offer of conftest.py
\* (5000.00 over 12 months, offered at 15.50%).
Applications ==
  {<<a, n, OfferedRate[u]>> : a \in 1..MaxCents, n \in 1..MaxPeriod, u \in Lenders}
  \cup {<<500000, 12, 1550>>}

\* The borrower has applied for one loan and the lender has offered to
\* fund it (CreateLoanView.post, then SubmitOfferView.post).
InitAmounts ==
  \E app \in Applications :
    /\ balance = InitialBalance
    /\ loans = <<NewLoan("borrower", app[1], app[2])>>
    /\ offers = <<NewOffer(1, "lender", app[3])>>
    /\ payments = <<>>
    /\ now = <<0, 31>>
    /\ db_rounding \in {"half_even", "half_up"}
    /\ resp = Response("none", 0, 0, "")
    /\ inflight = [w \in Workers |-> IdleWorker]

NextAmounts ==
  \/ \E o \in OfferIds : AcceptOffer(o)
  \/ \E p \in PaymentIds : MakePayment(p, 0, 0, "borrower")

SpecAmounts == InitAmounts /\ [][NextAmounts]_vars

\* --------------------------------------------------------- repeated sweeps
\* The balances the borrower's profile is created with (the balance field
\* of CreateUserSerializer) in the runs of repeated sweeps.
Deposits == {0, 1000, 3000, 6000, 12000}

\* The runs of repeated sweeps start when two loans have just been funded:
\* loan 1 of the borrower by the lender, and loan 2 of poor_lender by the
\* borrower, who lends too, so that a settlement of loan 2 raises the
\* balance the borrower repays loan 1 from.
InitRetry ==
  \E n1 \in 1..MaxPeriod, n2 \in 1..MaxPeriod, deposit \in Deposits :
    LET applied == <<NewLoan("borrower", 5000, n1), NewLoan("poor_lender", 5000, n2)>>
        offered == <<NewOffer(1, "lender", OfferedRate["lender"]),
                     NewOffer(2, "borrower", OfferedRate["poor_lender"])>>
        funded == [l \in 1..2 |-> FundedLoan(applied[l], offered[l], <<0, 31>>)]
    IN  /\ balance = [InitialBalance EXCEPT
                        !["borrower"] = deposit,
                        !["lender"] = InitialBalance["lender"] - TotalLoanAmount(applied[1])]
        /\ loans = funded
        /\ offers = [o \in 1..2 |-> [offered[o] EXCEPT !.is_accepted = TRUE]]
        /\ payments = SchedulesOf(funded, {1, 2}, 1)
        /\ now = <<0, 31>>
        /\ db_rounding \in {"half_even", "half_up"}
        /\ resp = Response("none", 0, 0, "")
        /\ inflight = [w \in Workers |-> IdleWorker]

NextRetry ==
  \/ Sweep
  \/ Tick

\* The scheduler starts process_loan_repayments again and again.
SpecRetry == InitRetry /\ [][NextRetry]_vars /\ WF_vars(Sweep)

\* ------------------------------------------------------ failing settlements
\* The statements of _process_automatic_payment that reach the database
\* after the borrower's debit is saved (tasks.py:97, 100, 105).
SettlementFaults == {"payment.save", "lender_profile.get", "lender_profile.save"}

\* Whether the turn's transaction is rolled back when one of these
\* statements raises.  _process_automatic_payment catches the exception
\* (tasks.py:115), so the atomic block of tasks.py:40 exits without one.
\* A failing save() has marked the transaction for rollback and the exit
\* rolls it back; a failing query of get_or_create has not, and the exit
\* commits what was written when the server keeps the transaction usable.
TurnIsRolledBack(fault, keeps_transaction) ==
  fault \in {"payment.save", "lender_profile.save"} \/ ~keeps_transaction

\* tasks.py:36-61 and 75-116: one turn of the loop in which the statement
\* `fault` raises: the result is not a success and failed_count grows.
SweepSettleFailing(st, p, payment, loan, fault, keeps_transaction) ==
  LET debited == [st.balance EXCEPT
                    ![loan.borrower] = st.balance[loan.borrower] - payment.amount]
      paid == [st.payments EXCEPT ![p] = PaidPayment(payment, loan, now)]
      written == IF fault = "payment.save"
                 THEN [st EXCEPT !.balance = debited]
                 ELSE [st EXCEPT !.balance = debited, !.payments = paid]
      kept == IF TurnIsRolledBack(fault, keeps_transaction) THEN st ELSE written
  IN  IF BorrowerCanPay(st.balance[loan.borrower], payment)
      THEN [kept EXCEPT !.failed_count = st.failed_count + 1]
      ELSE st

\* tasks.py:35-61: the loop when the turn number `failing` fails
RECURSIVE SweepLoopFailing(_, _, _, _, _)
SweepLoopFailing(st, order, failing, fault, keeps_transaction) ==
  IF order = <<>> THEN st
  ELSE LET p == Head(order)
           next == IF failing = 1
                   THEN SweepSettleFailing(st, p, payments[p], loans[payments[p].loan],
                                           fault, keeps_transaction)
                   ELSE SweepItem(st, p)
       IN  SweepLoopFailing(next, Tail(order), failing - 1, fault, keeps_transaction)

\* process_loan_repayments when one statement of one settlement raises
SweepWithFault ==
  \E order \in SweepOrders(DuePayments(now)) :
    \E failing \in 1..Len(order), fault \in SettlementFaults, keeps_transaction \in BOOLEAN :
      LET st == SweepLoopFailing([balance |-> balance, payments |-> payments,
                                  loans |-> loans, processed_count |-> 0,
                                  failed_count |-> 0, completed_loans |-> <<>>],
                                 order, failing, fault, keeps_transaction)
      IN  /\ balance' = st.balance
          /\ payments' = st.payments
          /\ loans' = st.loans
          /\ resp' = SweepResult([processed_payments |-> st.processed_count,
                                  failed_payments |-> st.failed_count,
                                  completed_loans |-> st.completed_loans,
                                  total_due_payments |-> Len(order)])
          /\ UNCHANGED <<offers, now, db_rounding, inflight>>

NextFaults ==
  \/ Sweep
  \/ SweepWithFault
  \/ Tick

SpecFaults == InitRetry /\ [][NextFaults]_vars

\* ------------------------------------------------------------------ claims
\* A step that answers the request `op` naming row `arg`: every request
\* sets resp, and only Tick, which answers no request, moves the clock.
IsRequest(op, arg) == resp'.op = op /\ resp'.arg = arg /\ now' = now

AcceptedOffers(loan_id) ==
  {o \in OfferIds : offers[o].loan = loan_id /\ offers[o].is_accepted}

RECURSIVE SumAmounts(_, _)
SumAmounts(pays, S) ==
  IF S = {} THEN 0
  ELSE LET p == CHOOSE x \in S : TRUE
       IN  pays[p].amount + SumAmounts(pays, S \ {p})

\* C1: every loan has at most one accepted offer, and AcceptOffer on a
\* not yet accepted offer of a loan that is funded or completed fails and
\* changes nothing.
AtMostOneAcceptedOffer == \A l \in LoanIds : Cardinality(AcceptedOffers(l)) <= 1

AcceptOnClosedLoanFails ==
  \A o \in OfferIds :
    (/\ IsRequest("AcceptOffer", o)
     /\ ~offers[o].is_accepted
     /\ loans[offers[o].loan].status # "pending")
    => (resp'.status # 200 /\ db' = db)

C1_OfferAcceptanceExclusive ==
  []AtMostOneAcceptedOffer /\ [][AcceptOnClosedLoanFails]_vars

\* C2: a loan's status never moves backwards: a funded loan is never
\* pending again and a completed loan keeps the status completed.
StatusMovesForward ==
  \A l \in LoanIds :
    /\ loans[l].status = "funded" => loans'[l].status # "pending"
    /\ loans[l].status = "completed" => loans'[l].status = "completed"

C2_StatusNeverRegresses == [][StatusMovesForward]_vars

\* C3: a successful AcceptOffer on an unaccepted offer of a pending loan
\* debits the offer's lender by loan_amount + 3.75 and nobody else, sets
\* the loan's lender, rate, fee 3.75, total loan_amount + 3.75, status
\* funded and funded_at, and marks the offer accepted.
AcceptOfferFunds ==
  \A o \in OfferIds :
    (/\ IsRequest("AcceptOffer", o)
     /\ resp'.status = 200
     /\ ~offers[o].is_accepted
     /\ loans[offers[o].loan].status = "pending")
    => LET l == offers[o].loan
           lender == offers[o].lender
       IN  /\ balance'[lender] = balance[lender] - (loans[l].loan_amount + 375)
           /\ \A u \in Users \ {lender} : balance'[u] = balance[u]
           /\ loans'[l].lender = lender
           /\ loans'[l].annual_interest_rate = offers[o].annual_interest_rate
           /\ loans'[l].lenme_fee = 375
           /\ loans'[l].total_loan_amount = loans[l].loan_amount + 375
           /\ loans'[l].status = "funded"
           /\ loans'[l].funded_at # NoDate
           /\ loans'[l].funded_at = now
           /\ offers'[o].is_accepted

C3_AcceptOfferFunds == [][AcceptOfferFunds]_vars

\* C3 happens: an AcceptOffer has just succeeded on the only accepted
\* offer of its loan.
C3_Witness ==
  /\ resp.op = "AcceptOffer" /\ resp.status = 200
  /\ loans[offers[resp.arg].loan].status = "funded"
  /\ AcceptedOffers(offers[resp.arg].loan) = {resp.arg}
  /\ balance[offers[resp.arg].lender] < InitialBalance[offers[resp.arg].lender]

\* C4: right after a successful AcceptOffer on a loan of n > 0 months the
\* loan has exactly n payments, numbered 1..n without gap or duplicate, all
\* pending, all of one amount, payment i due i months after funded_at.
ScheduleIsExact ==
  \A o \in OfferIds :
    (/\ IsRequest("AcceptOffer", o)
     /\ resp'.status = 200
     /\ ~offers[o].is_accepted
     /\ loans[offers[o].loan].loan_period_months > 0)
    => LET l == offers[o].loan
           n == loans[l].loan_period_months
           ps == PaymentsOf(payments', l)
       IN  /\ Cardinality(ps) = n
           /\ \A i \in 1..n :
                Cardinality({p \in ps : payments'[p].payment_number = i}) = 1
           /\ \A p \in ps :
                /\ payments'[p].status = "pending"
                /\ payments'[p].due_date =
                     AddMonths(loans'[l].funded_at, payments'[p].payment_number)
           /\ \A p, q \in ps : payments'[p].amount = payments'[q].amount
           /\ \A p, q \in ps :
                payments'[p].payment_number < payments'[q].payment_number
                => ~DateLE(payments'[q].due_date, payments'[p].due_date)

C4_ScheduleIsExact == [][ScheduleIsExact]_vars

\* C5: payment_number is unique within a loan and a loan never has more
\* than loan_period_months payments.
C5_PaymentNumberUnique ==
  \A l \in LoanIds :
    /\ \A p, q \in PaymentsOf(payments, l) :
         payments[p].payment_number = payments[q].payment_number => p = q
    /\ Cardinality(PaymentsOf(payments, l)) <= loans[l].loan_period_months

\* C6: AcceptOffer on an unaccepted offer whose lender's balance is below
\* loan_amount + 3.75 fails and changes no balance, loan, offer or payment.
AcceptWithoutFundsFails ==
  \A o \in OfferIds :
    (/\ IsRequest("AcceptOffer", o)
     /\ ~offers[o].is_accepted
     /\ balance[offers[o].lender] < loans[offers[o].loan].loan_amount + 375)
    => /\ resp'.status = 400
       /\ resp'.error = "Lender no longer has sufficient balance"
       /\ db' = db

C6_AcceptWithoutFundsFails == [][AcceptWithoutFundsFails]_vars

\* C6 happens: an AcceptOffer has just failed for lack of funds on an
\* offer of a pending loan; the lender could afford it when offering.
C6_Witness ==
  /\ resp.op = "AcceptOffer" /\ resp.status = 400
  /\ resp.error = "Lender no longer has sufficient balance"
  /\ ~offers[resp.arg].is_accepted
  /\ loans[offers[resp.arg].loan].status = "pending"
  /\ loans[offers[resp.arg].loan].lender = NoUser
  /\ InitialBalance[offers[resp.arg].lender]
       >= loans[offers[resp.arg].loan].loan_amount + 375
  /\ balance[offers[resp.arg].lender]
       < loans[offers[resp.arg].loan].loan_amount + 375

\* C7: AcceptOffer is atomic: a request that does not succeed changes
\* nothing, and one that succeeds debits the lender, funds the loan,
\* accepts the offer and creates the schedule.
AcceptOfferAllOrNothing ==
  \A o \in OfferIds :
    IsRequest("AcceptOffer", o)
    => \/ db' = db
       \/ /\ resp'.status = 200
          /\ offers'[o].is_accepted
          /\ loans'[offers[o].loan].status = "funded"
          /\ balance'[offers[o].lender] < balance[offers[o].lender]
          /\ Len(payments') > Len(payments)

C7_AcceptOfferAtomic == [][AcceptOfferAllOrNothing]_vars

\* C8: MakePayment on a pending payment whose borrower's balance is below
\* the payment's amount fails and changes nothing.
PaymentWithoutFundsFails ==
  \A p \in PaymentIds :
    (/\ IsRequest("MakePayment", p)
     /\ payments[p].status = "pending"
     /\ balance[loans[payments[p].loan].borrower] < payments[p].amount)
    => (resp'.status = 400 /\ db' = db)

C8_PaymentWithoutFundsFails == [][PaymentWithoutFundsFails]_vars

\* C9: a step that settles payments (MakePayment or the sweep) takes from
\* every borrower exactly the amounts of the borrower's payments it marks
\* paid, and sets their paid_at.
NewlyPaid(b) ==
  {p \in PaymentIds : /\ payments[p].status = "pending"
                      /\ payments'[p].status = "paid"
                      /\ loans[payments[p].loan].borrower = b}

SettlementDebitsBorrower ==
  \A b \in Applicants :
    /\ \A p \in NewlyPaid(b) : payments'[p].paid_at # NoDate
    /\ NewlyPaid(b) # {} =>
         balance'[b] = balance[b] - SumAmounts(payments, NewlyPaid(b))

C9_SettlementDebitsBorrower == [][SettlementDebitsBorrower]_vars

\* C10: MakePayment on a payment that is already paid fails with the
\* already-paid error and changes nothing: no second credit to the
\* lender, paid_at and the recorded shares are kept.
SecondPaymentFails ==
  \A p \in PaymentIds :
    (IsRequest("MakePayment", p) /\ payments[p].status = "paid")
    => /\ resp'.status = 400
       /\ resp'.error = "Payment already made"
       /\ db' = db

C10_SecondPaymentFails == [][SecondPaymentFails]_vars

\* C10 happens: a MakePayment has just been refused on a payment that an
\* earlier settlement marked paid and credited to the lender.
C10_Witness ==
  /\ resp.op = "MakePayment" /\ resp.status = 400
  /\ resp.error = "Payment already made"
  /\ payments[resp.arg].status = "paid"
  /\ payments[resp.arg].lender_amount > 0

\* C11: a step that settles a payment of a funded loan leaves the loan
\* funded while another payment of the loan is still pending, and makes it
\* completed, in that same step, when no payment of the loan is pending
\* any more; the order in which the payments are settled does not matter.
CompletionFollowsLastPayment ==
  \A l \in LoanIds :
    (/\ loans[l].status = "funded"
     /\ \E p \in PaymentsOf(payments, l) :
          payments[p].status = "pending" /\ payments'[p].status = "paid")
    => loans'[l].status =
         IF \A p \in PaymentsOf(payments', l) : payments'[p].status = "paid"
         THEN "completed" ELSE "funded"

C11_CompletionFollowsLastPayment == [][CompletionFollowsLastPayment]_vars

\* C11 happens: a MakePayment has just settled payment number 1 of a loan
\* of two payments after payment number 2, and the loan is completed.
C11_Witness ==
  /\ resp.op = "MakePayment" /\ resp.status = 200
  /\ payments[resp.arg].payment_number = 1
  /\ Cardinality(PaymentsOf(payments, payments[resp.arg].loan)) = 2
  /\ Cardinality(AcceptedOffers(payments[resp.arg].loan)) = 1
  /\ loans[payments[resp.arg].loan].status = "completed"

\* C12: when every loan has a positive amount and a positive term and
\* every offer a non-negative rate, no balance is ever negative.
C12_BalancesNonNegative ==
  (/\ \A l \in LoanIds : loans[l].loan_amount > 0 /\ loans[l].loan_period_months > 0
   /\ \A o \in OfferIds : offers[o].annual_interest_rate >= 0)
  => \A u \in Users : balance[u] >= 0

\* C12 happens: a sweep has debited the borrower for one due payment and
\* left another due payment pending that the rest of the balance cannot
\* cover.
C12_Witness ==
  /\ resp.op = "process_loan_repayments"
  /\ resp.summary.processed_payments > 0
  /\ \A l \in LoanIds : loans[l].loan_amount > 0 /\ loans[l].loan_period_months > 0
  /\ balance["borrower"] < InitialBalance["borrower"]
  /\ \E p \in DuePayments(now) :
       /\ loans[payments[p].loan].borrower = "borrower"
       /\ balance["borrower"] < payments[p].amount

\* The steps of the concurrent handlers that write a balance or a payment.
DebitStep(w) == At(w, "AcceptOffer", "debit") /\ inflight'[w].pc = "fund"

SaveStep(w) == At(w, "MakePayment", "save") /\ inflight'[w].pc = "credit"

CreditStep(w) == At(w, "MakePayment", "credit") /\ inflight'[w].pc = "done"

\* No other worker serves, or has served, a request for the same offer or
\* for the same payment as worker w.
ServesAlone(w) ==
  \A v \in Workers \ {w} :
    /\ inflight[v].offer_id # inflight[w].offer_id \/ inflight[w].offer_id = 0
    /\ inflight[v].payment_id # inflight[w].payment_id \/ inflight[w].payment_id = 0

\* A turn of the sweep's loop that settles its row: the sweep counts it.
SweepSettles(w) ==
  /\ At(w, "process_loan_repayments", "loop")
  /\ inflight[w].processed_count + 1 =
       IF inflight'[w].pc = "done" THEN resp'.summary.processed_payments
       ELSE inflight'[w].processed_count

\* C13: with the handlers interleaved no account is overdrawn: no balance
\* becomes negative, and an AcceptOffer that is the only request for its
\* offer debits the lender only when the balance the lender holds at that
\* moment covers loan_amount + 3.75, so that requests on different loans
\* that succeed together never take more than was available; a sweep
\* debits a borrower only when the balance covers the payment.
NoOverdraft ==
  /\ \A u \in Users : balance'[u] >= 0
  /\ \A w \in Workers :
       (DebitStep(w) /\ ServesAlone(w)) =>
         balance[offers[inflight[w].offer_id].lender]
           >= inflight[w].loan.loan_amount + 375
  /\ \A w \in Workers :
       SweepSettles(w) =>
         balance[Head(inflight[w].rows).loan.borrower]
           >= Head(inflight[w].rows).payment.amount

C13_NoOverdraft == [][NoOverdraft]_vars

\* C14: balance updates of one account are serialized: a handler that is
\* the only one for its offer or payment and debits a lender leaves the balance lower by exactly loan_amount + 3.75
\* than it was just before the write, and one that credits a lender for a
\* payment leaves it higher by the payment's amount less the fee share
\* (to the cent), whatever the other handlers did in between.
NoLostUpdate ==
  \A w \in Workers :
    /\ (DebitStep(w) /\ ServesAlone(w)) =>
         LET lender == offers[inflight[w].offer_id].lender
         IN  balance'[lender] = balance[lender] - (inflight[w].loan.loan_amount + 375)
    /\ (CreditStep(w) /\ ServesAlone(w)) =>
         LET lender == inflight[w].loan.lender
             n == inflight[w].loan.loan_period_months
             \* n times what the step added beyond amount - fee / n
             excess == n * (balance'[lender] - balance[lender]
                            - inflight[w].payment.amount)
                       + inflight[w].loan.lenme_fee
         IN  n > 0 => (-n < excess /\ excess < n)

C14_NoLostUpdate == [][NoLostUpdate]_vars

\* C15: a payment is settled at most once: a handler marks a payment paid
\* (and goes on to credit the lender, and in the sweep to debit the
\* borrower) only if the payment is still pending at that moment.
SettledOnce ==
  \A w \in Workers :
    /\ SaveStep(w) => payments[inflight[w].payment_id].status = "pending"
    /\ SweepSettles(w) => payments[Head(inflight[w].rows).id].status = "pending"

C15_SettledOnce == [][SettledOnce]_vars

\* C16: for every paid payment the recorded platform_fee plus the recorded
\* lender_amount is within one cent of the payment's amount.
C16_SharesWithinOneCent ==
  \A p \in PaymentIds :
    payments[p].status = "paid"
    => LET gap == payments[p].platform_fee + payments[p].lender_amount
                  - payments[p].amount
       IN  -1 <= gap /\ gap <= 1

\* C16 happens: MakePayment has just settled a payment whose two recorded
\* shares, each rounded on its own, add up to one cent more than its amount.
C16_Witness ==
  /\ resp.op = "MakePayment" /\ resp.status = 200
  /\ payments[resp.arg].status = "paid"
  /\ payments[resp.arg].platform_fee > 0
  /\ payments[resp.arg].platform_fee + payments[resp.arg].lender_amount
       = payments[resp.arg].amount + 1

\* C17: in the payment_breakdown of a successful MakePayment,
\* platform_fee + lender_amount equals total_payment exactly.
BreakdownAddsUp ==
  \A p \in PaymentIds :
    (IsRequest("MakePayment", p) /\ resp'.status = 200)
    => /\ resp'.breakdown.total_payment = payments[p].amount
       /\ resp'.breakdown.platform_fee + resp'.breakdown.lender_amount
            = resp'.breakdown.total_payment

C17_BreakdownAddsUp == [][BreakdownAddsUp]_vars

\* num/den cents rounded to the cent, a half cent away from zero.
HalfUp(num, den) ==
  LET q == num \div den
      r == num % den
  IN  IF 2 * r < den THEN q
      ELSE IF 2 * r > den THEN q + 1
      ELSE IF num >= 0 THEN q + 1 ELSE q

\* C18: a step that settles a payment records as platform share
\* lenme_fee / loan_period_months rounded half-up (0 when the term is not
\* positive) and as lender share the amount less the unrounded fee per
\* installment, rounded half-up.
SharesRoundedHalfUp ==
  \A p \in PaymentIds :
    (payments[p].status = "pending" /\ payments'[p].status = "paid")
    => LET loan == loans[payments[p].loan]
           n == loan.loan_period_months
       IN  IF n > 0
           THEN /\ payments'[p].platform_fee = HalfUp(loan.lenme_fee, n)
                /\ payments'[p].lender_amount =
                     HalfUp(payments[p].amount * n - loan.lenme_fee, n)
           ELSE /\ payments'[p].platform_fee = 0
                /\ payments'[p].lender_amount = payments[p].amount

C18_SharesRoundedHalfUp == [][SharesRoundedHalfUp]_vars

\* T / n + T * r / 100 / 12 in cents for T >= 0 cents, r hundredths of a
\* percent and n > 0, with the rounding `tie` of an exact half cent.
RoundedInstallment(T, r, n, tie_goes_up) ==
  LET q1 == T \div n
      r1 == T % n
      q2 == (T * r) \div 120000
      r2 == (T * r) % 120000
      D == 120000 * n
      F == r1 * 120000 + r2 * n
      q == q1 + q2 + (F \div D)
      f == F % D
  IN  IF 2 * f < D THEN q
      ELSE IF 2 * f > D THEN q + 1
      ELSE IF tie_goes_up THEN q + 1 ELSE q

\* C19: every installment a successful AcceptOffer creates for a pending
\* loan of n > 0 months has the amount T / n + T * r / 100 / 12 rounded to
\* the cent half-up, with T = loan_amount + 3.75 and r the rate of the
\* accepted offer (for r = 0, T / n rounded to the cent).
InstallmentRoundedHalfUp ==
  \A o \in OfferIds :
    (/\ IsRequest("AcceptOffer", o)
     /\ resp'.status = 200
     /\ loans[offers[o].loan].status = "pending"
     /\ loans[offers[o].loan].loan_period_months > 0)
    => LET l == offers[o].loan
           T == loans[l].loan_amount + 375
       IN  \A p \in PaymentsOf(payments', l) :
             payments'[p].amount =
               RoundedInstallment(T, offers[o].annual_interest_rate,
                                  loans[l].loan_period_months, TRUE)

C19_InstallmentRoundedHalfUp == [][InstallmentRoundedHalfUp]_vars

\* A successful AcceptOffer of the offer at 15.50% on the pending loan of
\* 5000.00 over 12 months.
FundsTheSampleLoan(o) ==
  /\ IsRequest("AcceptOffer", o)
  /\ resp'.status = 200
  /\ offers[o].annual_interest_rate = 1550
  /\ loans[offers[o].loan].status = "pending"
  /\ loans[offers[o].loan].loan_amount = 500000
  /\ loans[offers[o].loan].loan_period_months = 12

FirstInstallment(pays, loan_id) ==
  CHOOSE p \in PaymentsOf(pays, loan_id) : pays[p].payment_number = 1

\* C20 as stated: for the loan of 5000.00 over 12 months funded at 15.50%
\* total_loan_amount is 5003.75 and the first installment is 481.63.
SampleLoanPays48163 ==
  \A o \in OfferIds :
    FundsTheSampleLoan(o)
    => /\ loans'[offers[o].loan].total_loan_amount = 500375
       /\ payments'[FirstInstallment(payments', offers[o].loan)].amount = 48163

C20_SampleLoanPays48163 == [][SampleLoanPays48163]_vars

\* C20, amended: for the loan of 5000.00 over 12 months funded at 15.50%
\* total_loan_amount is 5003.75 and the first installment, like every
\* installment, is 481.61 (5003.75 / 12 + 5003.75 * 0.1550 / 12 =
\* 416.979... + 64.631... = 481.6109...).
SampleLoanPays48161 ==
  \A o \in OfferIds :
    FundsTheSampleLoan(o)
    => /\ loans'[offers[o].loan].total_loan_amount = 500375
       /\ Cardinality(PaymentsOf(payments', offers[o].loan)) = 12
       /\ \A p \in PaymentsOf(payments', offers[o].loan) :
            payments'[p].amount = 48161

C20_SampleLoanPays48161 == [][SampleLoanPays48161]_vars

\* C20 happens: AcceptOffer has just funded the loan of 5000.00 over 12
\* months at 15.50% and created its twelve installments.
C20_Witness ==
  /\ resp.op = "AcceptOffer" /\ resp.status = 200
  /\ loans[offers[resp.arg].loan].loan_amount = 500000
  /\ loans[offers[resp.arg].loan].loan_period_months = 12
  /\ loans[offers[resp.arg].loan].annual_interest_rate = 1550
  /\ loans[offers[resp.arg].loan].status = "funded"
  /\ Cardinality(PaymentsOf(payments, offers[resp.arg].loan)) = 12

\* C21: CreateLoan accepts only a positive amount and a positive whole
\* number of months: no loan with a non-positive amount or term ever
\* exists, a refused request adds no loan, and an accepted request adds
\* exactly one loan, pending and without a lender.
LoansArePositive ==
  \A l \in LoanIds : loans[l].loan_amount > 0 /\ loans[l].loan_period_months > 0

CreateLoanAddsPendingLoan ==
  (resp'.op = "CreateLoan" /\ now' = now) =>
    IF resp'.status = 201
    THEN /\ Len(loans') = Len(loans) + 1
         /\ SubSeq(loans', 1, Len(loans)) = loans
         /\ loans'[Len(loans')].status = "pending"
         /\ loans'[Len(loans')].lender = NoUser
         /\ loans'[Len(loans')].loan_amount > 0
         /\ loans'[Len(loans')].loan_period_months > 0
    ELSE loans' = loans

C21_CreateLoanValidates ==
  []LoansArePositive /\ [][CreateLoanAddsPendingLoan]_vars

\* The offers a step adds.
AddedOffers == (1..Len(offers')) \ OfferIds

\* C22: no step adds an offer on a loan whose status is not pending or
\* that already has a lender, and a SubmitOffer made when every loan is
\* such a loan is refused with the has-a-lender error.
LoanIsClosed(l) == loans[l].status # "pending" \/ loans[l].lender # NoUser

OfferOnClosedLoanFails ==
  /\ \A l \in LoanIds :
       LoanIsClosed(l) => \A o \in AddedOffers : offers'[o].loan # l
  /\ (/\ resp'.op = "SubmitOffer" /\ now' = now
      /\ \A l \in LoanIds : LoanIsClosed(l))
     => /\ resp'.status = 400
        /\ resp'.error = "Loan already has a lender"
        /\ offers' = offers

C22_OfferOnClosedLoanFails == [][OfferOnClosedLoanFails]_vars

\* C22 happens: a SubmitOffer has just been refused because the loan has
\* a lender, and a loan that is funded or completed exists.
C22_Witness ==
  /\ resp.op = "SubmitOffer" /\ resp.status = 400
  /\ resp.error = "Loan already has a lender"
  /\ \E l \in LoanIds : loans[l].status # "pending" /\ loans[l].lender # NoUser
  /\ Len(offers) < MaxOffers

\* C23: SubmitOffer, accepted or refused, changes no balance, no loan and
\* no payment; a refused one adds no offer; and an offer is only added
\* for a lender whose balance is at least loan_amount + 3.75.
SubmitOfferChecksFunds ==
  (resp'.op = "SubmitOffer" /\ now' = now) =>
    /\ balance' = balance /\ loans' = loans /\ payments' = payments
    /\ resp'.status # 201 => offers' = offers
    /\ \A o \in AddedOffers :
         balance[offers'[o].lender] >= loans[offers'[o].loan].loan_amount + 375

C23_SubmitOfferChecksFunds == [][SubmitOfferChecksFunds]_vars

\* C23 happens: a SubmitOffer has just been refused for insufficient
\* balance, a lender's balance being below the 53.75 a pending loan needs.
C23_Witness ==
  /\ resp.op = "SubmitOffer" /\ resp.status = 400
  /\ resp.error = "Insufficient balance"
  /\ \E u \in Lenders, l \in LoanIds :
       /\ loans[l].status = "pending" /\ loans[l].lender = NoUser
       /\ balance[u] < loans[l].loan_amount + 375

\* C24: AcceptOffer on an offer that is already accepted fails with the
\* already-accepted error and changes no balance, loan, offer or payment.
AcceptAcceptedOfferFails ==
  \A o \in OfferIds :
    (IsRequest("AcceptOffer", o) /\ offers[o].is_accepted)
    => /\ resp'.status = 400
       /\ resp'.error = "Offer already accepted"
       /\ db' = db

C24_AcceptAcceptedOfferFails == [][AcceptAcceptedOfferFails]_vars

\* C24 happens: an AcceptOffer has just been refused on an offer whose
\* earlier acceptance funded the loan and created its payments.
C24_Witness ==
  /\ resp.op = "AcceptOffer" /\ resp.status = 400
  /\ resp.error = "Offer already accepted"
  /\ offers[resp.arg].is_accepted
  /\ loans[offers[resp.arg].loan].lender = offers[resp.arg].lender
  /\ PaymentsOf(payments, offers[resp.arg].loan) # {}

\* C25: the funding fields of a loan are all absent or all present: a
\* pending loan has no lender, no rate, no funded_at, lenme_fee 0 and
\* total_loan_amount 0; a funded or completed loan has a lender, a rate,
\* a funded_at, lenme_fee 3.75 and total_loan_amount = loan_amount + 3.75.
C25_FundingFieldsTogether ==
  \A l \in LoanIds :
    IF loans[l].status = "pending"
    THEN /\ loans[l].lender = NoUser
         /\ loans[l].annual_interest_rate = NULL_RATE
         /\ loans[l].funded_at = NoDate
         /\ loans[l].lenme_fee = 0
         /\ loans[l].total_loan_amount = 0
    ELSE /\ loans[l].lender # NoUser
         /\ loans[l].annual_interest_rate # NULL_RATE
         /\ loans[l].funded_at # NoDate
         /\ loans[l].lenme_fee = 375
         /\ loans[l].total_loan_amount = loans[l].loan_amount + 375

\* C25 happens: a pending loan, and a loan that was funded and has been
\* completed, exist side by side.
C25_Witness ==
  /\ \E l \in LoanIds : loans[l].status = "pending"
  /\ \E l \in LoanIds : loans[l].status = "completed"
  /\ \E o \in OfferIds : offers[o].is_accepted

\* C26: a pending payment has platform_fee 0, lender_amount 0 and no
\* paid_at; a paid payment has a paid_at and its two shares, which make up
\* its amount to the cent; the shares are written only by the step that
\* marks the payment paid, and a paid payment never changes afterwards.
SharesFollowStatus ==
  \A p \in PaymentIds :
    IF payments[p].status = "pending"
    THEN /\ payments[p].platform_fee = 0
         /\ payments[p].lender_amount = 0
         /\ payments[p].paid_at = NoDate
    ELSE /\ payments[p].paid_at # NoDate
         /\ Abs(payments[p].amount - payments[p].platform_fee
                  - payments[p].lender_amount) <= 1

SharesWrittenOnce ==
  \A p \in PaymentIds :
    /\ payments[p].status = "paid" => payments'[p] = payments[p]
    /\ (\/ payments'[p].platform_fee # payments[p].platform_fee
        \/ payments'[p].lender_amount # payments[p].lender_amount)
       => (payments[p].status = "pending" /\ payments'[p].status = "paid")

C26_SharesFollowStatus == []SharesFollowStatus /\ [][SharesWrittenOnce]_vars

\* C26 happens: a sweep has just settled one payment of a loan, recording
\* its shares, while another payment of the same loan is still pending.
C26_Witness ==
  /\ resp.op = "process_loan_repayments"
  /\ resp.summary.processed_payments = 1
  /\ \E p, q \in PaymentIds :
       /\ payments[p].loan = payments[q].loan
       /\ payments[p].status = "paid" /\ payments[p].paid_at = now
       /\ payments[p].platform_fee > 0 /\ payments[p].lender_amount > 0
       /\ payments[q].status = "pending"

\* A step that is one run of process_loan_repayments: only the sweep
\* answers with that name, and only Tick, which answers nothing, moves the
\* clock.
IsSweep == resp'.op = "process_loan_repayments" /\ now' = now

\* The payments that, before the step, are due today or earlier, pending,
\* and belong to a funded loan.
SelectedBySweep ==
  {p \in PaymentIds : /\ payments[p].due_date[1] < now[1]
                         \/ (/\ payments[p].due_date[1] = now[1]
                             /\ payments[p].due_date[2] <= now[2])
                      /\ payments[p].status = "pending"
                      /\ loans[payments[p].loan].status = "funded"}

\* The payments the step marks paid.
SettledByStep ==
  {p \in PaymentIds : payments[p].status = "pending" /\ payments'[p].status = "paid"}

\* C27: a sweep settles only payments that, when it selected them, were
\* due today or earlier, pending and of a funded loan; every other payment
\* (not yet due, already paid, of a pending or completed loan), every
\* offer, every loan none of whose payments it settles and every balance
\* of a user who is neither borrower nor lender of a settled payment is
\* left as it was.
SweepTouchesOnlyDue ==
  IsSweep =>
    /\ SettledByStep \subseteq SelectedBySweep
    /\ Len(payments') = Len(payments)
    /\ \A p \in PaymentIds \ SettledByStep : payments'[p] = payments[p]
    /\ offers' = offers
    /\ \A l \in LoanIds :
         (\A p \in SettledByStep : payments[p].loan # l) => loans'[l] = loans[l]
    /\ \A u \in Users :
         (\A p \in SettledByStep : /\ loans[payments[p].loan].borrower # u
                                   /\ loans[payments[p].loan].lender # u)
         => balance'[u] = balance[u]

C27_SweepTouchesOnlyDue == [][SweepTouchesOnlyDue]_vars

\* C27 happens: a sweep has just settled a due payment and has left
\* pending a payment of the same funded loan that is not due yet.
C27_Witness ==
  /\ resp.op = "process_loan_repayments"
  /\ resp.summary.processed_payments >= 1
  /\ \E p, q \in PaymentIds :
       /\ payments[p].loan = payments[q].loan
       /\ loans[payments[p].loan].status = "funded"
       /\ payments[p].status = "paid" /\ payments[p].paid_at = now
       /\ payments[q].status = "pending" /\ payments[q].due_date[1] > now[1]

\* C28: in a sweep, a selected payment that is not settled (its
\* borrower's balance is below its amount) is left as it was, and
\* failed_payments is the number of selected payments not settled.
SweepCountsFailures ==
  IsSweep =>
    /\ \A p \in SelectedBySweep \ SettledByStep : payments'[p] = payments[p]
    /\ resp'.summary.failed_payments = Cardinality(SelectedBySweep \ SettledByStep)

C28_SweepCountsFailures == [][SweepCountsFailures]_vars

\* C29: a sweep is not all or nothing: it always returns a summary that
\* counts every selected payment, no payment that was paid is pending
\* after it, and every selected payment is either settled or, as the
\* borrower's balance only falls during a sweep, exceeds what the
\* borrower has left when the sweep ends: a payment that could not be
\* settled has not kept a later affordable one from being settled.
SweepSettlesWhatItCan ==
  IsSweep =>
    /\ resp'.summary.total_due_payments = Cardinality(SelectedBySweep)
    /\ \A p \in PaymentIds : payments[p].status = "paid" => payments'[p].status = "paid"
    /\ \A p \in SelectedBySweep :
         \/ payments'[p].status = "paid"
         \/ balance'[loans[payments[p].loan].borrower] < payments[p].amount

SummaryIsExact ==
  IsSweep =>
    LET done == {l \in LoanIds : /\ loans[l].status = "funded"
                                 /\ loans'[l].status = "completed"}
        listed == resp'.summary.completed_loans
    IN  /\ resp'.summary.processed_payments = Cardinality(SettledByStep)
        /\ Len(listed) = Cardinality(done)
        /\ {listed[i] : i \in 1..Len(listed)} = done

BorrowerIds == {"borrower", "lender", NoUser}

SameForEveryBorrowerId(payment_id, loan_id, payment_number) ==
  (\E b \in BorrowerIds : MakePayment(payment_id, loan_id, payment_number, b))
  => \A b \in BorrowerIds : MakePayment(payment_id, loan_id, payment_number, b)

BorrowerIdIsIgnored ==
  (resp'.op = "MakePayment" /\ now' = now) =>
    IF resp'.arg \in PaymentIds
    THEN /\ SameForEveryBorrowerId(resp'.arg, 0, 0)
         /\ SameForEveryBorrowerId(0, payments[resp'.arg].loan,
                                   payments[resp'.arg].payment_number)
    ELSE \A l \in LoanIds, k \in 1..MaxPeriod : SameForEveryBorrowerId(0, l, k)

SweepSettlesAsMakePayment ==
  \A p \in PaymentIds :
    (IsSweep /\ SettledByStep = {p})
    => /\ balance' = MakePaymentWrites(p).balance
       /\ payments' = MakePaymentWrites(p).payments
       /\ loans' = MakePaymentWrites(p).loans

C32_SweepSettlesAsMakePayment == [][SweepSettlesAsMakePayment]_vars

\* C33: a step that settles a payment raises the stored balance of the
\* loan's lender by exactly the lender_amount it records on the payment.
LenderCreditedRecordedShare ==
  \A p \in PaymentIds :
    SettledByStep = {p}
    => balance'[loans[payments[p].loan].lender]
         = balance[loans[payments[p].loan].lender] + payments'[p].lender_amount

C33_LenderCreditedRecordedShare == [][LenderCreditedRecordedShare]_vars

\* C34: between operations, a loan is completed exactly when it has at
\* least one payment and all its payments are paid; so a funded loan with
\* a positive term has a pending payment.
C34_CompletedIffAllPaid ==
  \A l \in LoanIds :
    /\ loans[l].status = "completed"
       <=> (/\ PaymentsOf(payments, l) # {}
            /\ \A p \in PaymentsOf(payments, l) : payments[p].status = "paid")
    /\ (loans[l].status = "funded" /\ loans[l].loan_period_months > 0)
       => \E p \in PaymentsOf(payments, l) : payments[p].status = "pending"

\* C34 happens: a loan of two payments has been completed by the
\* settlement of its last pending payment while another loan, funded, still
\* has a paid and a pending payment.
C34_Witness ==
  \E l, m \in LoanIds :
    /\ loans[l].status = "completed"
    /\ Cardinality(PaymentsOf(payments, l)) = 2
    /\ loans[m].status = "funded"
    /\ \E p, q \in PaymentsOf(payments, m) :
         payments[p].status = "paid" /\ payments[q].status = "pending"

\* The payments of the runs of repeated sweeps: two loans of at most
\* MaxPeriod payments each.
RetryPaymentIds == 1..(2 * MaxPeriod)

\* Payment p is selected by a sweep that starts now, and its borrower's
\* balance covers it.
DueAndAffordable(p) ==
  /\ p \in PaymentIds
  /\ DateLE(payments[p].due_date, now)
  /\ payments[p].status = "pending"
  /\ loans[payments[p].loan].status = "funded"
  /\ balance[loans[payments[p].loan].borrower] >= payments[p].amount

\* Payment p is paid, or its borrower's balance does not cover it.
PaidOrUncovered(p) ==
  /\ p \in PaymentIds
  /\ \/ payments[p].status = "paid"
     \/ balance[loans[payments[p].loan].borrower] < payments[p].amount

\* A payment a sweep selects and does not settle is as it was, and is
\* selected again by a sweep that starts after it.
SkippedIsRetried ==
  IsSweep =>
    \A p \in SelectedBySweep \ SettledByStep :
      /\ payments'[p] = payments[p]
      /\ loans'[payments[p].loan].status = "funded"

\* C35: repeated sweeps retry: a due payment that a sweep skips stays
\* pending and selected; while sweeps keep running, a selected payment
\* that the borrower's balance covers is eventually paid unless the
\* balance stops covering it; and a funded loan whose pending payments
\* are all due and covered together is eventually completed unless the
\* balance stops covering them.
C35_SweepsRetry ==
  /\ [][SkippedIsRetried]_vars
  /\ \A p \in RetryPaymentIds :
       DueAndAffordable(p) ~> PaidOrUncovered(p)
  /\ \A l \in 1..2 :
       (/\ loans[l].status = "funded"
        /\ \A p \in PaymentsOf(payments, l) :
             payments[p].status = "pending" => DateLE(payments[p].due_date, now)
        /\ balance[loans[l].borrower] >=
             SumAmounts(payments, {p \in PaymentsOf(payments, l) :
                                     payments[p].status = "pending"}))
       ~> (\/ loans[l].status = "completed"
           \/ \E p \in PaymentsOf(payments, l) :
                /\ payments[p].status = "pending"
                /\ balance[loans[l].borrower] < payments[p].amount)

\* C35 happens: the payment of loan 1, which the borrower's deposit does
\* not cover, has just been paid by a sweep that selected nothing else: a
\* sweep before it settled the payment of loan 2, which raised the
\* borrower's balance, and skipped this one, due on the same day.
C35_Witness ==
  /\ resp.op = "process_loan_repayments"
  /\ resp.summary.total_due_payments = 1
  /\ resp.summary.processed_payments = 1
  /\ \E p \in PaymentsOf(payments, 1), q \in PaymentsOf(payments, 2) :
       /\ payments[p].status = "paid" /\ payments[q].status = "paid"
       /\ payments[p].due_date = payments[q].due_date
       /\ balance["borrower"] + payments[p].amount - payments[q].lender_amount
            < payments[p].amount

\* C36: when a settlement of a sweep fails after the borrower's debit is
\* written, nothing of it is kept: its payment is still pending (the
\* payments the sweep leaves paid are the ones it counts as processed),
\* and when the sweep settles nothing every balance is as it was.
FailedSettlementLeavesNothing ==
  (IsSweep /\ resp'.summary.failed_payments > 0) =>
    /\ Cardinality(SettledByStep) = resp'.summary.processed_payments
    /\ \A p \in PaymentIds \ SettledByStep : payments'[p] = payments[p]
    /\ SettledByStep = {} => balance' = balance

C36_FailedSettlementLeavesNothing == [][FailedSettlementLeavesNothing]_vars

\* C37: a loan is funded once: once a loan has a lender, no step changes
\* its lender, rate, fee or total amount, and no step debits a lender for
\* it again (AcceptOffer goes through only for a loan without a lender).
LoanFundedOnce ==
  /\ \A l \in LoanIds :
       loans[l].lender # NoUser
       => /\ loans'[l].lender = loans[l].lender
          /\ loans'[l].annual_interest_rate = loans[l].annual_interest_rate
          /\ loans'[l].lenme_fee = loans[l].lenme_fee
          /\ loans'[l].total_loan_amount = loans[l].total_loan_amount
  /\ \A o \in OfferIds :
       (/\ IsRequest("AcceptOffer", o)
        /\ balance'[offers[o].lender] < balance[offers[o].lender])
       => loans[offers[o].loan].lender = NoUser

C37_LoanFundedOnce == [][LoanFundedOnce]_vars

RECURSIVE SumPlatformFees(_, _)
SumPlatformFees(pays, S) ==
  IF S = {} THEN 0
  ELSE LET p == CHOOSE x \in S : TRUE
       IN  pays[p].platform_fee + SumPlatformFees(pays, S \ {p})

\* C38: once every payment of a loan funded (once) with fee F over n > 0
\* months is paid, the platform_fee values recorded on its payments add up
\* to F.
C38_FeeSpreadWithoutLoss ==
  \A l \in LoanIds :
    (/\ loans[l].loan_period_months > 0
     /\ Cardinality(AcceptedOffers(l)) = 1
     /\ PaymentsOf(payments, l) # {}
     /\ \A p \in PaymentsOf(payments, l) : payments[p].status = "paid")
    => SumPlatformFees(payments, PaymentsOf(payments, l)) = loans[l].lenme_fee

====
